---- MODULE Spec2Model ----
(***************************************************************************)
(* KAIRO narrative pipeline: Story Engine, Template Matcher, Enhancement   *)
(* Customizer, Narrative Builder, Enhancer and Pipeline Orchestrator, as   *)
(* state machines over bounded input.                                      *)
(*                                                                         *)
(* Conventions                                                             *)
(*   - template structure fractions are held in hundredths (0.35 -> 35);   *)
(*   - moment timestamps are whole seconds; beat start/end are held in     *)
(*     half-seconds (HalfSec) because transition beats last 0.5 s;         *)
(*   - Math.round(x) is floor(x + 0.5), here RoundDiv on a rational.       *)
(***************************************************************************)
EXTENDS Integers, Sequences, FiniteSets, TLC

VARIABLES
  pc,          \* position of the running operation
  template,    \* index into TEMPLATES of the template in use
  moments,     \* Story Engine input: GameplayMoment list
  arc,         \* Story Engine output: StoryArc
  requested,   \* template id handed to generateMockArc
  highlights,  \* Narrative Builder input: Highlight list
  plan,        \* Narrative Builder output: ClipPlan
  config,      \* PersonaConfig handed to the StreamerPersona constructor
  persona,     \* the constructed StreamerPersona
  summary,     \* HighlightSummary handed to matchTemplate
  match,       \* result of matchTemplate
  defaults,    \* EnhancementDefaults handed to customizeEnhancements
  levels,      \* result of customizeEnhancements
  clipPlan,    \* ClipPlan handed to applyEnhancements
  sliders,     \* EnhancementLevels handed to applyEnhancements
  enhanced,    \* result of applyEnhancements
  run          \* one run of the Pipeline Orchestrator

vars == <<pc, template, moments, arc, requested, highlights, plan,
          config, persona, summary, match, defaults, levels,
          clipPlan, sliders, enhanced, run>>

storyVars == <<moments, arc, requested>>
narrativeVars == <<highlights, plan>>
personaVars == <<config, persona, summary, match, defaults, levels>>
enhancerVars == <<clipPlan, sliders, enhanced>>
pipelineVars == <<run>>

(* ---------------------------------------------------------------------- *)
(* Bounds of the model                                                     *)
(* ---------------------------------------------------------------------- *)
MaxMoments == 5        \* longest moment list handed to the Story Engine
MaxHighlights == 6     \* longest highlight list handed to the Narrative Builder
MaxPadding == 2        \* largest context padding, seconds
LevelSlack == 1        \* how far outside 1..10 a configured level may lie
MaxSegments == 3       \* longest segment list of a ClipPlan handed to the enhancer

Times == {0, 2, 10, 30}  \* moment timestamps, seconds
Scores == {0, 70, 100}   \* moment scores: none, the climax threshold, the top

\* the highlights the detection collaborator may report to the Narrative Builder
HighlightPool ==
  { [timestamp |-> 10, score |-> 95], [timestamp |-> 12, score |-> 40],
    [timestamp |-> 60, score |-> 70], [timestamp |-> 1, score |-> 70] }
\* energy_level / edit_intensity as configured, before the constructor clamps
RawLevels == (1 - LevelSlack)..(10 + LevelSlack)
HumorInputs == {"chaotic", "loud", "sarcastic", "dry", "wholesome", "deadpan", ""}
PreferredInputs == {"", "retro-recap"}   \* besides the catalog ids
\* highlight summaries on both sides of every threshold scoreTemplateMatch
\* tests; clutches score >= 90, rage indicators score > 70
Summaries ==
  { hl \in [avgScore : {49, 50, 71}, maxScore : {84, 85, 95}, count : {10, 11},
            momentumSwings : {3, 4}, clutchCount : {0, 3}, rageIndicators : {0, 3}] :
      /\ hl.avgScore <= hl.maxScore
      /\ hl.clutchCount > 0 => hl.maxScore >= 90
      /\ hl.rageIndicators > 0 => hl.maxScore > 70 }
Paddings == 1..MaxPadding       \* context padding is a positive number of seconds
MaxDurations == {0, 3, 7, 1000}  \* maximum total durations, seconds

(* ---------------------------------------------------------------------- *)
(* Generic helpers                                                         *)
(* ---------------------------------------------------------------------- *)
Max(a, b) == IF a > b THEN a ELSE b
Min(a, b) == IF a < b THEN a ELSE b
Abs(a) == IF a < 0 THEN -a ELSE a

\* Math.round(num/den) for den > 0: floor(num/den + 1/2)
RoundDiv(num, den) == (2 * num + den) \div (2 * den)

\* Math.ceil(num/den) for den > 0
CeilDiv(num, den) == -((-num) \div den)

RECURSIVE SumSeq(_)
SumSeq(s) == IF s = <<>> THEN 0 ELSE Head(s) + SumSeq(Tail(s))

RECURSIVE MaxSeq(_, _)
MaxSeq(s, init) == IF s = <<>> THEN init ELSE MaxSeq(Tail(s), Max(init, Head(s)))

RECURSIVE Reverse(_)
Reverse(s) == IF s = <<>> THEN <<>> ELSE Append(Reverse(Tail(s)), Head(s))

(* ---------------------------------------------------------------------- *)
(* Template catalog (templates.js), in Map insertion order                 *)
(* ---------------------------------------------------------------------- *)
Tpl(id, i, b, c, o, mood, ts, bgm, sub, eff, hook, tr) ==
  [id |-> id,
   structure |-> [intro |-> i, build |-> b, climax |-> c, outro |-> o],
   mood |-> mood, transition_style |-> ts,
   enhancement_defaults |->
     [bgm |-> bgm, subtitles |-> sub, effects |-> eff, hook |-> hook, transitions |-> tr]]

TEMPLATES ==
  << Tpl("comeback-king",     10, 35, 40, 15, "triumphant", "dramatic-cut", 80, 60, 75, 90, 70),
     Tpl("clutch-master",      8, 25, 55, 12, "intense",    "hard-cut",     85, 50, 90, 95, 60),
     Tpl("rage-quit-montage",  5, 40, 35, 20, "chaotic",    "glitch-whip",  70, 85, 95, 80, 90),
     Tpl("chill-highlights",  15, 30, 30, 25, "chill",      "crossfade",    90, 40, 30, 45, 85),
     Tpl("kill-montage",       5, 15, 70, 10, "intense",    "hard-cut",     90, 20, 95, 85, 50),
     Tpl("session-story",     12, 38, 30, 20, "triumphant", "crossfade",    75, 70, 50, 60, 80),
     Tpl("tiktok-vertical",    8, 20, 55, 17, "intense",    "glitch-whip",  85, 95, 80, 100, 75),
     Tpl("edu-breakdown",     10, 45, 30, 15, "chill",      "crossfade",    40, 90, 60, 50, 70),
     Tpl("hype-montage",       7, 30, 48, 15, "intense",    "hard-cut",     95, 30, 85, 90, 80),
     Tpl("squad-moments",     12, 33, 35, 20, "triumphant", "crossfade",    65, 85, 55, 70, 75) >>

TemplateIds == {TEMPLATES[k].id : k \in 1..Len(TEMPLATES)}

Undefined == "undefined"

\* TEMPLATES.get(id): the template's catalog position, 0 standing for the
\* undefined that Map.get returns for an id that is not a key
getTemplate(id) ==
  IF id \in TemplateIds
  THEN CHOOSE k \in 1..Len(TEMPLATES) : TEMPLATES[k].id = id
  ELSE 0

\* the template generateMockArc builds from:
\* getTemplate(templateId) || getTemplate('comeback-king'), the parameter
\* defaulting to 'comeback-king' when no id is passed
mockTemplate(templateId) ==
  LET id == IF templateId = Undefined THEN "comeback-king" ELSE templateId
  IN IF getTemplate(id) # 0 THEN getTemplate(id) ELSE getTemplate("comeback-king")

(* ---------------------------------------------------------------------- *)
(* Story Engine (story-engine.js)                                          *)
(* ---------------------------------------------------------------------- *)
HalfSec == 2          \* beat times are held in units of 1/HalfSec second
contextPadding == 2   \* seconds before/after each moment (_buildBeats)
peakPadding == 3      \* seconds before/after the peak moment

\* [...moments].sort((a, b) => a.timestamp - b.timestamp): a stable sort
RECURSIVE InsertMoment(_, _)
InsertMoment(sorted, m) ==
  IF sorted = <<>> THEN <<m>>
  ELSE IF Head(sorted).timestamp <= m.timestamp
       THEN <<Head(sorted)>> \o InsertMoment(Tail(sorted), m)
       ELSE <<m>> \o sorted

RECURSIVE SortMoments(_)
SortMoments(s) ==
  IF s = <<>> THEN <<>>
  ELSE InsertMoment(SortMoments(SubSeq(s, 1, Len(s) - 1)), s[Len(s)])

\* window.reduce((s, m) => s + m.score, 0) for the window starting at 0-based i
WindowScore(sortedMoments, i, windowSize) ==
  SumSeq([k \in 1..windowSize |-> sortedMoments[i + k].score])

RECURSIVE ClimaxScan(_, _, _, _, _)
ClimaxScan(sortedMoments, windowSize, i, bestScore, bestCenter) ==
  IF i > Len(sortedMoments) - windowSize THEN bestCenter
  ELSE LET totalScore == WindowScore(sortedMoments, i, windowSize)
           midIdx == i + (windowSize \div 2)
       IN IF totalScore > bestScore
          THEN ClimaxScan(sortedMoments, windowSize, i + 1, totalScore,
                          sortedMoments[midIdx + 1].timestamp)
          ELSE ClimaxScan(sortedMoments, windowSize, i + 1, bestScore, bestCenter)

\* the scan with a single window spanning the whole list
findClimaxCenterOneWindow(sortedMoments) ==
  IF Len(sortedMoments) <= 2
  THEN sortedMoments[Len(sortedMoments)].timestamp
  ELSE ClimaxScan(sortedMoments, Len(sortedMoments), 0, 0, 0)

findClimaxCenter(sortedMoments) ==
  IF Len(sortedMoments) <= 2
  THEN sortedMoments[Len(sortedMoments)].timestamp
  ELSE ClimaxScan(sortedMoments, Max(3, (Len(sortedMoments) * 3) \div 10), 0, 0, 0)

\* sortedMoments.reduce((a, b) => a.score > b.score ? a : b): the last maximum
RECURSIVE BestOf(_, _)
BestOf(a, rest) ==
  IF rest = <<>> THEN a
  ELSE BestOf(IF a.score > Head(rest).score THEN a ELSE Head(rest), Tail(rest))

ReduceBest(ms) == BestOf(Head(ms), Tail(ms))

\* the partition loop's test with the score condition of the climax left out
PhaseOfAnyScore(moment, first, totalSpan, climaxCenter, structure) ==
  LET relTime == moment.timestamp - first
      distFromClimax == Abs(moment.timestamp - climaxCenter)
  IN IF 200 * distFromClimax < totalSpan * structure.climax
     THEN "climax"
     ELSE IF 200 * (climaxCenter - moment.timestamp) > totalSpan * structure.climax
          THEN IF 100 * relTime < totalSpan * structure.intro THEN "hook" ELSE "rising"
          ELSE "outro"

\* phase of one moment in the partition loop; budgets are span * fraction, so
\* d < climaxBudget/2 is 200*d < span*climax with climax in hundredths
PhaseOf(moment, first, totalSpan, climaxCenter, structure) ==
  LET relTime == moment.timestamp - first
      distFromClimax == Abs(moment.timestamp - climaxCenter)
  IN IF 200 * distFromClimax < totalSpan * structure.climax /\ moment.score >= 70
     THEN "climax"
     ELSE IF 200 * (climaxCenter - moment.timestamp) > totalSpan * structure.climax
          THEN IF 100 * relTime < totalSpan * structure.intro THEN "hook" ELSE "rising"
          ELSE "outro"

\* the partition without the "ensure climax has at least the top moment" step
partitionLoopOnly(sortedMoments, climaxCenter, structure) ==
  LET first == sortedMoments[1].timestamp
      totalSpan == sortedMoments[Len(sortedMoments)].timestamp - first
      In(p) == SelectSeq(sortedMoments,
                 LAMBDA m : PhaseOf(m, first, totalSpan, climaxCenter, structure) = p)
  IN [hook |-> In("hook"), rising |-> In("rising"), climax |-> In("climax"),
      falling |-> <<>>, outro |-> In("outro")]

partitionIntoPhases(sortedMoments, climaxCenter, structure) ==
  LET first == sortedMoments[1].timestamp
      totalSpan == sortedMoments[Len(sortedMoments)].timestamp - first
      In(p) == SelectSeq(sortedMoments,
                 LAMBDA m : PhaseOf(m, first, totalSpan, climaxCenter, structure) = p)
      climax0 == In("climax")
  IN [hook |-> In("hook"), rising |-> In("rising"),
      climax |-> IF climax0 = <<>> THEN <<ReduceBest(sortedMoments)>> ELSE climax0,
      falling |-> <<>>, outro |-> In("outro")]

Beat(phase, type, start, end, intensity, m, cue, pacing) ==
  [phase |-> phase, type |-> type, start |-> start, end |-> end,
   intensity |-> intensity, moment |-> m, musicCue |-> cue, pacing |-> pacing]

\* a [t - pad, t + pad] interval clamped at 0, in half-seconds
PadStart(t, pad) == Max(0, HalfSec * (t - pad))
PadEnd(t, pad) == HalfSec * (t + pad)

RECURSIVE HookBeats(_)
HookBeats(ms) ==
  IF ms = <<>> THEN <<>>
  ELSE LET moment == Head(ms)
       IN <<Beat("hook", "moment", PadStart(moment.timestamp, contextPadding),
                 PadEnd(moment.timestamp, contextPadding),
                 Min(80, moment.score + 20), moment.id, "build", 100)>>
          \o HookBeats(Tail(ms))

\* no teaser beat when the hook phase has no moments
FlashForwardSkipped(climax) == <<>>

FlashForward(climax) ==
  IF climax = <<>> THEN <<>>
  ELSE LET peakMoment == climax[1]
       IN <<Beat("hook", "context", Max(0, HalfSec * (peakMoment.timestamp - 1)),
                 HalfSec * (peakMoment.timestamp + 1), 90, 0, "drop", 50)>>

\* the rising beats with a transition after the last moment as well
RECURSIVE RisingBeatsAllTransitions(_, _)
RisingBeatsAllTransitions(ms, lastId) ==
  IF ms = <<>> THEN <<>>
  ELSE LET moment == Head(ms)
       IN <<Beat("rising", "moment", PadStart(moment.timestamp, contextPadding),
                 PadEnd(moment.timestamp, contextPadding),
                 moment.score, moment.id, "build", 100),
            Beat("rising", "transition", PadEnd(moment.timestamp, contextPadding),
                 PadEnd(moment.timestamp, contextPadding) + 1,
                 (moment.score * 6) \div 10, 0, "sustain", 150)>>
          \o RisingBeatsAllTransitions(Tail(ms), lastId)

RECURSIVE RisingBeats(_, _)
RisingBeats(ms, lastId) ==
  IF ms = <<>> THEN <<>>
  ELSE LET moment == Head(ms)
       IN <<Beat("rising", "moment", PadStart(moment.timestamp, contextPadding),
                 PadEnd(moment.timestamp, contextPadding),
                 moment.score, moment.id, "build", 100)>>
          \o (IF moment.id # lastId
              THEN <<Beat("rising", "transition", PadEnd(moment.timestamp, contextPadding),
                          PadEnd(moment.timestamp, contextPadding) + 1,
                          (moment.score * 6) \div 10, 0, "sustain", 150)>>
              ELSE <<>>)
          \o RisingBeats(Tail(ms), lastId)

\* the climax beats without the reaction beat after the peak
RECURSIVE ClimaxBeatsNoReaction(_, _)
ClimaxBeatsNoReaction(ms, peakId) ==
  IF ms = <<>> THEN <<>>
  ELSE LET moment == Head(ms)
           isThePeak == moment.id = peakId
           pad == IF isThePeak THEN peakPadding ELSE contextPadding
       IN <<Beat("climax", "moment", PadStart(moment.timestamp, pad),
                 PadEnd(moment.timestamp, pad), moment.score, moment.id,
                 IF isThePeak THEN "drop" ELSE "sustain",
                 IF isThePeak THEN 50 ELSE 75)>>
          \o ClimaxBeatsNoReaction(Tail(ms), peakId)

RECURSIVE ClimaxBeats(_, _)
ClimaxBeats(ms, peakId) ==
  IF ms = <<>> THEN <<>>
  ELSE LET moment == Head(ms)
           isThePeak == moment.id = peakId
           pad == IF isThePeak THEN peakPadding ELSE contextPadding
       IN <<Beat("climax", "moment", PadStart(moment.timestamp, pad),
                 PadEnd(moment.timestamp, pad), moment.score, moment.id,
                 IF isThePeak THEN "drop" ELSE "sustain",
                 IF isThePeak THEN 50 ELSE 75)>>
          \o (IF isThePeak
              THEN <<Beat("climax", "reaction", HalfSec * (moment.timestamp + 3),
                          HalfSec * (moment.timestamp + 5), 85, 0, "sustain", 100)>>
              ELSE <<>>)
          \o ClimaxBeats(Tail(ms), peakId)

RECURSIVE OutroBeats(_)
OutroBeats(ms) ==
  IF ms = <<>> THEN <<>>
  ELSE LET moment == Head(ms)
       IN <<Beat("outro", IF moment.type = "reaction" THEN "reaction" ELSE "moment",
                 PadStart(moment.timestamp, contextPadding),
                 PadEnd(moment.timestamp, contextPadding),
                 Max(30, moment.score - 20), moment.id, "quiet", 100)>>
          \o OutroBeats(Tail(ms))

\* beats.sort((a, b) => a.start - b.start): a stable sort
RECURSIVE InsertBeat(_, _)
InsertBeat(sorted, b) ==
  IF sorted = <<>> THEN <<b>>
  ELSE IF Head(sorted).start <= b.start
       THEN <<Head(sorted)>> \o InsertBeat(Tail(sorted), b)
       ELSE <<b>> \o sorted

RECURSIVE SortBeats(_)
SortBeats(s) ==
  IF s = <<>> THEN <<>>
  ELSE InsertBeat(SortBeats(SubSeq(s, 1, Len(s) - 1)), s[Len(s)])

\* the beats in emission order, before the final sort
EmittedBeats(phases) ==
  (IF Len(phases.hook) > 0 THEN HookBeats(phases.hook) ELSE FlashForward(phases.climax))
  \o RisingBeats(phases.rising,
                 IF phases.rising = <<>> THEN 0 ELSE phases.rising[Len(phases.rising)].id)
  \o ClimaxBeats(phases.climax,
                 IF phases.climax = <<>> THEN 0 ELSE ReduceBest(phases.climax).id)
  \o OutroBeats(phases.outro)

\* the beats left in emission order, grouped by phase
buildBeatsUnsorted(phases) == EmittedBeats(phases)

buildBeats(phases) == SortBeats(EmittedBeats(phases))

BeatsOf(beats, phase) == SelectSeq(beats, LAMBDA b : b.phase = phase)

Intensities(beats) == [k \in 1..Len(beats) |-> beats[k].intensity]

\* the sum of the intensities, not divided by the number of beats
avgUndivided(arr) == IF Len(arr) > 0 THEN SumSeq(Intensities(arr)) ELSE 0

\* avg = arr => arr.length > 0 ? Math.round(sum / arr.length) : 0
avg(arr) == IF Len(arr) > 0 THEN RoundDiv(SumSeq(Intensities(arr)), Len(arr)) ELSE 0

\* x || y on numbers: y when x is 0
OrElse(x, y) == IF x = 0 THEN y ELSE x

calculateEmotionCurve(beats) ==
  IF Len(beats) = 0
  THEN [opening |-> 0, midpoint |-> 0, peak |-> 0, closing |-> 0]
  ELSE [opening  |-> OrElse(avg(BeatsOf(beats, "hook")), 60),
        midpoint |-> OrElse(avg(BeatsOf(beats, "rising")), 50),
        peak     |-> OrElse(MaxSeq(Intensities(BeatsOf(beats, "climax")), 0), 95),
        closing  |-> OrElse(avg(BeatsOf(beats, "outro")), 40)]

Ends(beats) == [k \in 1..Len(beats) |-> beats[k].end]
\* each beat counted from the start of the timeline to its end
DurationsFromZero(beats) == [k \in 1..Len(beats) |-> beats[k].end]

Durations(beats) == [k \in 1..Len(beats) |-> beats[k].end - beats[k].start]

\* pool[Math.floor(Math.random() * pool.length)]: the title is a random entry
\* of the mood's pool (the chill pool for an unknown mood); the arc records
\* the pool it was drawn from
generateTitle(mood) ==
  CASE mood = "triumphant" -> "titleGenerators.triumphant"
    [] mood = "intense" -> "titleGenerators.intense"
    [] mood = "chaotic" -> "titleGenerators.chaotic"
    [] OTHER -> "titleGenerators.chill"

\* likewise for the logline, with its {kills}, {clutches}, {deficit} filled in
generateLogline(mood) ==
  CASE mood = "triumphant" -> "loglineTemplates.triumphant"
    [] mood = "intense" -> "loglineTemplates.intense"
    [] mood = "chaotic" -> "loglineTemplates.chaotic"
    [] OTHER -> "loglineTemplates.chill"

\* the empty arc with the emotion curve's fallback values for beat-less phases
emptyArcWithFallbacks ==
  [empty |-> TRUE, sorted |-> <<>>, climaxCenter |-> 0,
   phases |-> [hook |-> <<>>, rising |-> <<>>, climax |-> <<>>, falling |-> <<>>, outro |-> <<>>],
   title |-> "No Story Yet",
   logline |-> "Upload a VOD to generate your story.",
   beats |-> <<>>,
   structure |-> [hookEnd |-> 0, risingEnd |-> 0, climaxEnd |-> 0, totalDuration |-> 0],
   emotionCurve |-> [opening |-> 60, midpoint |-> 50, peak |-> 95, closing |-> 40]]

\* _emptyArc(template): the template is not read
\* the demo moments of generateMockArc
MockMoment(id, timestamp, type, score) ==
  [id |-> id, timestamp |-> timestamp, score |-> score, type |-> type]

mockMoments ==
  << MockMoment(1, 12, "death", 30),      MockMoment(2, 45, "death", 25),
     MockMoment(3, 78, "kill", 55),       MockMoment(4, 120, "clutch", 72),
     MockMoment(5, 180, "combo", 65),     MockMoment(6, 240, "objective", 60),
     MockMoment(7, 310, "kill", 78),      MockMoment(8, 355, "clutch", 92),
     MockMoment(9, 400, "combo", 88),     MockMoment(10, 450, "clutch", 96),
     MockMoment(11, 478, "reaction", 85) >>

emptyArc ==
  [empty |-> TRUE, sorted |-> <<>>, climaxCenter |-> 0,
   phases |-> [hook |-> <<>>, rising |-> <<>>, climax |-> <<>>, falling |-> <<>>, outro |-> <<>>],
   title |-> "No Story Yet",
   logline |-> "Upload a VOD to generate your story.",
   beats |-> <<>>,
   structure |-> [hookEnd |-> 0, risingEnd |-> 0, climaxEnd |-> 0, totalDuration |-> 0],
   emotionCurve |-> [opening |-> 0, midpoint |-> 0, peak |-> 0, closing |-> 0]]

\* The returned StoryArc; sorted, climaxCenter and phases are the locals of
\* buildStoryArc kept for inspection. The id is a timestamp and is left out.
buildStoryArc(ms, tpl) ==
  IF Len(ms) = 0 THEN emptyArc
  ELSE LET sorted == SortMoments(ms)
           climaxCenter == findClimaxCenter(sorted)
           phases == partitionIntoPhases(sorted, climaxCenter, tpl.structure)
           beats == buildBeats(phases)
           hookEnd == MaxSeq(Ends(BeatsOf(beats, "hook")), 0)
           risingEnd == MaxSeq(Ends(BeatsOf(beats, "rising")), hookEnd)
           climaxEnd == MaxSeq(Ends(BeatsOf(beats, "climax")), risingEnd)
       IN [empty |-> FALSE, sorted |-> sorted, climaxCenter |-> climaxCenter,
           phases |-> phases,
           title |-> generateTitle(tpl.mood),
           logline |-> generateLogline(tpl.mood),
           beats |-> beats,
           structure |-> [hookEnd |-> hookEnd, risingEnd |-> risingEnd,
                          climaxEnd |-> climaxEnd,
                          totalDuration |-> SumSeq(Durations(beats))],
           emotionCurve |-> calculateEmotionCurve(beats)]

(* ---------------------------------------------------------------------- *)
(* Narrative Builder (Clip Planner), from spec section 4.4                 *)
(* ---------------------------------------------------------------------- *)
\* step 2: rank by score descending (a stable sort)
RECURSIVE InsertRanked(_, _)
InsertRanked(ranked, h) ==
  IF ranked = <<>> THEN <<h>>
  ELSE IF Head(ranked).score >= h.score
       THEN <<Head(ranked)>> \o InsertRanked(Tail(ranked), h)
       ELSE <<h>> \o ranked

RECURSIVE RankByScore(_)
RankByScore(hs) ==
  IF hs = <<>> THEN <<>>
  ELSE InsertRanked(RankByScore(SubSeq(hs, 1, Len(hs) - 1)), hs[Len(hs)])

\* step 2: per-phase counts, ceil(total * fraction) but >= 1; outro = remainder
PhaseCounts(total, structure) ==
  LET climaxCount == Max(1, CeilDiv(total * structure.climax, 100))
      buildCount == Max(1, CeilDiv(total * structure.build, 100))
      introCount == Max(1, CeilDiv(total * structure.intro, 100))
  IN [climax |-> climaxCount, build |-> buildCount, intro |-> introCount,
      outro |-> Max(0, total - climaxCount - buildCount - introCount)]

\* step 2: top-ranked to climax first, then build, then intro, remaining to outro
PhaseOfRank(rank, counts) ==
  IF rank <= counts.climax THEN "climax"
  ELSE IF rank <= counts.climax + counts.build THEN "build"
  ELSE IF rank <= counts.climax + counts.build + counts.intro THEN "intro"
  ELSE "outro"

\* a rank past the three counted phases gets no phase and is left out
TagPhasesCountedOnly(ranked, counts) ==
  SelectSeq([k \in 1..Len(ranked) |->
              [id |-> ranked[k].id, timestamp |-> ranked[k].timestamp,
               score |-> ranked[k].score, phase |-> PhaseOfRank(k, counts)]],
            LAMBDA h : h.phase # "outro")

TagPhases(ranked, counts) ==
  [k \in 1..Len(ranked) |->
    [id |-> ranked[k].id, timestamp |-> ranked[k].timestamp,
     score |-> ranked[k].score, phase |-> PhaseOfRank(k, counts)]]

\* step 3: [timestamp - padding, timestamp + padding] clamped at 0
PadSegments(tagged, padding) ==
  [k \in 1..Len(tagged) |->
    [start |-> Max(0, tagged[k].timestamp - padding),
     end |-> tagged[k].timestamp + padding,
     score |-> tagged[k].score, phase |-> tagged[k].phase]]

\* step 4: sort by start time (a stable sort)
RECURSIVE InsertSegment(_, _)
InsertSegment(sorted, seg) ==
  IF sorted = <<>> THEN <<seg>>
  ELSE IF Head(sorted).start <= seg.start
       THEN <<Head(sorted)>> \o InsertSegment(Tail(sorted), seg)
       ELSE <<seg>> \o sorted

RECURSIVE SortSegments(_)
SortSegments(segs) ==
  IF segs = <<>> THEN <<>>
  ELSE InsertSegment(SortSegments(SubSeq(segs, 1, Len(segs) - 1)), segs[Len(segs)])

\* the merge taking score and phase from the lower-scoring source
MergeTwoLower(prev, seg) ==
  [start |-> prev.start, end |-> Max(prev.end, seg.end),
   score |-> IF seg.score < prev.score THEN seg.score ELSE prev.score,
   phase |-> IF seg.score < prev.score THEN seg.phase ELSE prev.phase]

\* step 4: merged end = max of the two ends; score and phase from whichever
\* source segment had the higher score
MergeTwo(prev, seg) ==
  [start |-> prev.start, end |-> Max(prev.end, seg.end),
   score |-> IF seg.score > prev.score THEN seg.score ELSE prev.score,
   phase |-> IF seg.score > prev.score THEN seg.phase ELSE prev.phase]

\* step 4: a segment merges when its start <= the previous segment's end
Overlaps(prev, seg) == seg.start <= prev.end

RECURSIVE MergeInto(_, _)
MergeInto(merged, rest) ==
  IF rest = <<>> THEN merged
  ELSE LET seg == Head(rest)
           n == Len(merged)
       IN IF n > 0 /\ Overlaps(merged[n], seg)
          THEN MergeInto([merged EXCEPT ![n] = MergeTwo(merged[n], seg)], Tail(rest))
          ELSE MergeInto(Append(merged, seg), Tail(rest))

MergeSegments(sorted) == MergeInto(<<>>, sorted)

SegDurations(segs) == [k \in 1..Len(segs) |-> segs[k].end - segs[k].start]

\* the walk that stops at the segment that would exceed the maximum but keeps
\* it whole
RECURSIVE TrimNoTruncate(_, _, _, _)
TrimNoTruncate(included, total, rest, maxDuration) ==
  IF rest = <<>> THEN included
  ELSE LET seg == Head(rest)
       IN IF total + (seg.end - seg.start) > maxDuration
          THEN Append(included, seg)
          ELSE TrimNoTruncate(Append(included, seg), total + (seg.end - seg.start),
                              Tail(rest), maxDuration)

\* step 5: accumulate durations; the segment that would exceed the maximum
\* has its end truncated to hit the budget exactly, and the walk stops
RECURSIVE TrimWalk(_, _, _, _)
TrimWalk(included, total, rest, maxDuration) ==
  IF rest = <<>> THEN included
  ELSE LET seg == Head(rest)
           dur == seg.end - seg.start
       IN IF total + dur > maxDuration
          THEN Append(included, [seg EXCEPT !.end = seg.start + (maxDuration - total)])
          ELSE TrimWalk(Append(included, seg), total + dur, Tail(rest), maxDuration)

TrimToBudget(merged, maxDuration) == TrimWalk(<<>>, 0, merged, maxDuration)

\* The returned ClipPlan (segments, totalDuration); counts, tagged, padded and
\* merged are the intermediate results of the build, kept for inspection.
buildNarrative(hs, tpl, padding, maxDuration) ==
  IF Len(hs) = 0
  THEN [none |-> FALSE, padding |-> padding, maxDuration |-> maxDuration,
        counts |-> [climax |-> 0, build |-> 0, intro |-> 0, outro |-> 0],
        tagged |-> <<>>, padded |-> <<>>, merged |-> <<>>,
        segments |-> <<>>, totalDuration |-> 0]
  ELSE LET counts == PhaseCounts(Len(hs), tpl.structure)
           tagged == TagPhases(RankByScore(hs), counts)
           padded == SortSegments(PadSegments(tagged, padding))
           merged == MergeSegments(padded)
           segments == TrimToBudget(merged, maxDuration)
       IN [none |-> FALSE, padding |-> padding, maxDuration |-> maxDuration,
           counts |-> counts, tagged |-> tagged, padded |-> padded,
           merged |-> merged, segments |-> segments,
           totalDuration |-> SumSeq(SegDurations(segments))]

(* ---------------------------------------------------------------------- *)
(* Persona, Template Matcher, Enhancement Customizer (persona.js)          *)
(* ---------------------------------------------------------------------- *)
\* the constructor with only the lower limit on the two levels
StreamerPersonaFloorOnly(cfg) ==
  [energy_level |-> Max(1, cfg.energy_level),
   humor_style |-> IF cfg.humor_style = "" THEN "wholesome" ELSE cfg.humor_style,
   preferred_template |-> cfg.preferred_template,
   edit_intensity |-> Max(1, cfg.edit_intensity)]

\* new StreamerPersona(config): the fields the pipeline computes with
StreamerPersona(cfg) ==
  [energy_level |-> Max(1, Min(10, cfg.energy_level)),
   humor_style |-> IF cfg.humor_style = "" THEN "wholesome" ELSE cfg.humor_style,
   preferred_template |-> cfg.preferred_template,
   edit_intensity |-> Max(1, Min(10, cfg.edit_intensity))]

\* energyMap[template.id] || 5
energyMap(id) ==
  CASE id = "comeback-king" -> 7
    [] id = "clutch-master" -> 8
    [] id = "rage-quit-montage" -> 9
    [] id = "chill-highlights" -> 3
    [] id = "kill-montage" -> 8
    [] id = "session-story" -> 5
    [] id = "tiktok-vertical" -> 8
    [] id = "edu-breakdown" -> 4
    [] id = "hype-montage" -> 9
    [] id = "squad-moments" -> 6
    [] OTHER -> 5

\* the "highlight characteristics" bonus of a template
highlightBonus(id, hl) ==
  CASE id = "comeback-king" -> IF hl.momentumSwings > 3 THEN 15 ELSE 0
    [] id = "clutch-master" -> IF hl.clutchCount > 2 THEN 15 ELSE 0
    [] id = "rage-quit-montage" -> IF hl.rageIndicators > 2 THEN 15 ELSE 0
    [] id = "chill-highlights" -> IF hl.avgScore < 50 THEN 10 ELSE 0
    [] id = "kill-montage" -> IF hl.maxScore >= 95 THEN 15 ELSE 0
    [] id = "session-story" -> IF hl.count > 10 THEN 12 ELSE 0
    [] id = "tiktok-vertical" -> IF hl.maxScore >= 85 THEN 10 ELSE 0
    [] id = "hype-montage" -> IF hl.avgScore > 70 THEN 12 ELSE 0
    [] OTHER -> 0

\* humorBonus[persona.humor_style]?.[template.id] || 0
humorBonus(style, id) ==
  CASE style = "chaotic" ->
         (CASE id = "rage-quit-montage" -> 10 [] id = "clutch-master" -> 5
            [] id = "tiktok-vertical" -> 7 [] OTHER -> 0)
    [] style = "loud" ->
         (CASE id = "clutch-master" -> 10 [] id = "comeback-king" -> 8
            [] id = "hype-montage" -> 8 [] OTHER -> 0)
    [] style = "sarcastic" ->
         (CASE id = "rage-quit-montage" -> 8 [] id = "chill-highlights" -> 5
            [] id = "edu-breakdown" -> 7 [] OTHER -> 0)
    [] style = "dry" ->
         (CASE id = "chill-highlights" -> 10 [] id = "comeback-king" -> 5
            [] id = "session-story" -> 7 [] OTHER -> 0)
    [] style = "wholesome" ->
         (CASE id = "chill-highlights" -> 10 [] id = "comeback-king" -> 8
            [] id = "squad-moments" -> 10 [] OTHER -> 0)
    [] OTHER -> 0

scoreTemplateMatch(p, hl, tpl) ==
  LET preference == IF p.preferred_template = tpl.id THEN 20 ELSE 0
      energyDiff == Abs(p.energy_level - energyMap(tpl.id))
      score == 50 + preference - energyDiff * 3
                 + highlightBonus(tpl.id, hl) + humorBonus(p.humor_style, tpl.id)
  IN Max(0, Min(100, score))

\* a later template replaces the best so far on an equal score as well
BeatsOrTies(s, bestScore) == s >= bestScore

\* if (s > bestScore): only a strictly higher score replaces the best so far
Beats(s, bestScore) == s > bestScore

\* for (const [id, template] of TEMPLATES) { ... }, from catalog position k on
RECURSIVE ScanTemplates(_, _, _, _)
ScanTemplates(k, allScores, bestId, bestScore) ==
  IF k > Len(TEMPLATES) THEN [bestId |-> bestId, bestScore |-> bestScore]
  ELSE LET id == TEMPLATES[k].id
           s == allScores[id]
       IN IF Beats(s, bestScore)
          THEN ScanTemplates(k + 1, allScores, id, s)
          ELSE ScanTemplates(k + 1, allScores, bestId, bestScore)

\* the result's template is recorded by its id
matchTemplate(p, hl) ==
  LET allScores == [id \in TemplateIds |->
                      scoreTemplateMatch(p, hl,
                        TEMPLATES[CHOOSE k \in 1..Len(TEMPLATES) : TEMPLATES[k].id = id])]
      scan == ScanTemplates(1, allScores, "", -1)
      tieBreak == /\ p.preferred_template # ""
                  /\ p.preferred_template \in DOMAIN allScores
                  /\ allScores[p.preferred_template] = scan.bestScore
  IN [template |-> IF tieBreak THEN p.preferred_template ELSE scan.bestId,
      score |-> scan.bestScore,
      allScores |-> allScores]

\* Math.round of the double the source expression evaluates to: where the
\* exact value is k + 1/2 but its double evaluation falls just below, the
\* result is k (belowHalf), otherwise it is the exact rounding
RoundDouble(num, den, belowHalf) == RoundDiv(num, den) - (IF belowHalf THEN 1 ELSE 0)

\* <<energy_level, edit_intensity, default>> at which the double evaluation
\* of the effects / hook / transitions expression falls below the exact half
EffectsBelowHalf == { <<1, 4, 85>>, <<2, 4, 85>>, <<3, 4, 85>>, <<4, 4, 85>> }
HookBelowHalf ==
  { <<2, i, 75>> : i \in {1, 3, 5, 7, 9} }
    \cup { <<7, i, d>> : i \in {1, 3, 5, 7, 9}, d \in {25, 50, 75, 100} }
TransitionsBelowHalf ==
  { <<1, 4, 90>>, <<2, 4, 85>>, <<4, 4, 85>>, <<6, 4, 85>>, <<8, 4, 85>> }

\* the clamp without its upper limit
clampFloorOnly(rounded) == Max(0, rounded)

\* clamp = v => Math.max(0, Math.min(100, Math.round(v))), on the rounded value
clamp(rounded) == Max(0, Min(100, rounded))

\* the bgm level with the energy terms swapped in sign
bgmLevelEnergyRaises(e, d) == clamp(RoundDiv(10 * d - 150 + 25 * e, 10))

\* defaults.bgm + (1 - e/10) * 15 - (e/10) * 10
bgmLevel(e, d) == clamp(RoundDiv(10 * d + 150 - 25 * e, 10))

\* defaults.subtitles + subtitleBonus * (i/10)
subtitlesLevel(i, humor_style, d) ==
  LET subtitleBonus == IF humor_style \in {"chaotic", "loud", "sarcastic"} THEN 20 ELSE 0
  IN clamp(RoundDiv(10 * d + subtitleBonus * i, 10))

\* defaults.effects * (0.5 + (i/10) * 0.5) + (e/10) * 10
effectsLevel(e, i, d) ==
  clamp(RoundDouble(d * (50 + 5 * i) + 100 * e, 100, <<e, i, d>> \in EffectsBelowHalf))

\* defaults.hook * (0.6 + (e/10) * 0.4) + (i/10) * 5
hookLevel(e, i, d) ==
  clamp(RoundDouble(d * (60 + 4 * e) + 50 * i, 100, <<e, i, d>> \in HookBelowHalf))

\* defaults.transitions * (0.5 + (i/10) * 0.5) + (e/10) * 5
transitionsLevel(e, i, d) ==
  clamp(RoundDouble(d * (50 + 5 * i) + 50 * e, 100, <<e, i, d>> \in TransitionsBelowHalf))

customizeEnhancements(p, d) ==
  LET e == p.energy_level
      i == p.edit_intensity
  IN [bgm |-> bgmLevel(e, d.bgm),
      subtitles |-> subtitlesLevel(i, p.humor_style, d.subtitles),
      effects |-> effectsLevel(e, i, d.effects),
      hook |-> hookLevel(e, i, d.hook),
      transitions |-> transitionsLevel(e, i, d.transitions)]

(* ---------------------------------------------------------------------- *)
(* Enhancement modules (enhancer.js).  Segment times are whole seconds;    *)
(* effect and hook times are held in half-seconds, transition durations    *)
(* in hundredths of a second, zoom factors in thousandths.                 *)
(* ---------------------------------------------------------------------- *)
\* obj[name] in JavaScript: undefined when the object has no such property
Field(obj, name) == IF name \in DOMAIN obj THEN obj[name] ELSE Undefined

\* moodMap[clipPlan.mood] || moodMap.chill
moodMap(mood) ==
  CASE mood = "triumphant" -> [category |-> "orchestral-epic", bpm |-> 140, energy |-> 85]
    [] mood = "intense" -> [category |-> "electronic-hype", bpm |-> 150, energy |-> 90]
    [] mood = "chaotic" -> [category |-> "meme-edm", bpm |-> 160, energy |-> 95]
    [] OTHER -> [category |-> "lofi-ambient", bpm |-> 85, energy |-> 30]

\* <<base.energy, level>> and level at which the double evaluation of
\* base.energy * (level / 100) and of level * 0.7 falls below the exact half
EnergyBelowHalf == { <<85, 70>>, <<90, 35>> }
MixBelowHalf == {45, 85}

enhanceBGM(cp, level) ==
  LET base == moodMap(cp.mood)
  IN [category |-> base.category,
      bpm |-> base.bpm,
      energy |-> RoundDouble(base.energy * level, 100, <<base.energy, level>> \in EnergyBelowHalf),
      mood |-> cp.mood,
      fadeIn |-> level > 30,
      fadeOut |-> TRUE,
      mixLevel |-> RoundDouble(7 * level, 10, level \in MixBelowHalf)]

sizeMap(l) == IF l > 75 THEN "large" ELSE IF l > 40 THEN "medium" ELSE "small"

\* text holds the segment number the placeholder caption names
enhanceSubtitles(cp, level) ==
  IF level = 0 THEN <<>>
  ELSE [i \in 1..Len(cp.segments) |->
         [start |-> cp.segments[i].start,
          end |-> cp.segments[i].end,
          text |-> i,
          style |-> [position |-> "bottom",
                     size |-> sizeMap(level),
                     color |-> IF cp.mood = "chaotic" THEN "#FF4444" ELSE "#FFFFFF",
                     bold |-> level > 60,
                     font |-> IF cp.mood = "chill" THEN "Inter" ELSE "Montserrat",
                     outline |-> IF level > 50 THEN 3 ELSE 1]]]

\* the directives of one segment, with the zoom on scores above 90 only
EffectsOfSegmentStrictZoom(seg, mood, level) ==
  (IF seg.phase = "climax" /\ seg.score >= 80
   THEN << [type |-> "slowmo", start |-> HalfSec * seg.start,
            duration |-> HalfSec * Min(seg.end - seg.start, 3),
            params |-> [factor |-> IF level > 70 THEN 25 ELSE 50,
                        rampIn |-> TRUE, rampOut |-> TRUE]] >>
   ELSE <<>>)
  \o (IF seg.score > 90
      THEN << [type |-> "zoom", start |-> HalfSec * seg.start + 1,
               duration |-> 3,
               params |-> [factor |-> 1200 + 5 * level, centerX |-> 50, centerY |-> 40,
                           easing |-> "easeInOutCubic"]] >>
      ELSE <<>>)
  \o (IF mood = "chaotic" /\ level > 50
      THEN << [type |-> "shake", start |-> HalfSec * seg.start,
               duration |-> 1,
               params |-> [intensity |-> level, frequency |-> 15]] >>
      ELSE <<>>)

\* the directives one qualifying segment pushes, in order: slowmo (factor in
\* hundredths), zoom (start + 0.5 s, 1.5 s long), shake (0.5 s long)
EffectsOfSegment(seg, mood, level) ==
  (IF seg.phase = "climax" /\ seg.score >= 80
   THEN << [type |-> "slowmo", start |-> HalfSec * seg.start,
            duration |-> HalfSec * Min(seg.end - seg.start, 3),
            params |-> [factor |-> IF level > 70 THEN 25 ELSE 50,
                        rampIn |-> TRUE, rampOut |-> TRUE]] >>
   ELSE <<>>)
  \o (IF seg.score >= 90
      THEN << [type |-> "zoom", start |-> HalfSec * seg.start + 1,
               duration |-> 3,
               params |-> [factor |-> 1200 + 5 * level, centerX |-> 50, centerY |-> 40,
                           easing |-> "easeInOutCubic"]] >>
      ELSE <<>>)
  \o (IF mood = "chaotic" /\ level > 50
      THEN << [type |-> "shake", start |-> HalfSec * seg.start,
               duration |-> 1,
               params |-> [intensity |-> level, frequency |-> 15]] >>
      ELSE <<>>)

\* for (const seg of clipPlan.segments) { if (seg.score < scoreThreshold) continue; ... }
RECURSIVE EffectsLoop(_, _, _)
EffectsLoop(segs, mood, level) ==
  IF segs = <<>> THEN <<>>
  ELSE LET seg == Head(segs)
           scoreThreshold == 100 - level
       IN (IF seg.score < scoreThreshold THEN <<>> ELSE EffectsOfSegment(seg, mood, level))
          \o EffectsLoop(Tail(segs), mood, level)

enhanceEffects(cp, level) ==
  IF level = 0 THEN <<>> ELSE EffectsLoop(cp.segments, cp.mood, level)

\* segments.reduce((best, seg) => seg.score > best.score ? seg : best, init)
RECURSIVE HookBest(_, _)
HookBest(best, segs) ==
  IF segs = <<>> THEN best
  ELSE HookBest(IF Head(segs).score > best.score THEN Head(segs) ELSE best, Tail(segs))

\* hookTexts[clipPlan.mood] || 'WAIT FOR IT...'
hookTexts(mood) ==
  CASE mood = "triumphant" -> "THE COMEBACK NOBODY EXPECTED"
    [] mood = "intense" -> "WATCH THIS CLUTCH"
    [] mood = "chaotic" -> "HE ACTUALLY RAGE QUIT"
    [] mood = "chill" -> "vibes were immaculate"
    [] OTHER -> "WAIT FOR IT..."

\* duration in half-seconds: 3, 2.5 or 2 seconds
enhanceHook(cp, level) ==
  LET bestSegment == HookBest([score |-> 0, start |-> 0], cp.segments)
      hookDuration == IF level > 70 THEN 6 ELSE IF level > 40 THEN 5 ELSE 4
  IN [text |-> hookTexts(cp.mood),
      duration |-> hookDuration,
      zoom |-> [factor |-> 1000 + 5 * level, x |-> 50, y |-> 50],
      textStyle |-> [font |-> IF cp.mood = "chill" THEN "Inter" ELSE "Bebas Neue",
                     size |-> IF level > 60 THEN 72 ELSE 48,
                     color |-> "#FFFFFF", stroke |-> "#000000",
                     strokeWidth |-> IF level > 50 THEN 4 ELSE 2,
                     position |-> "center",
                     animation |-> IF level > 70 THEN "slam" ELSE "fadeIn"],
      previewTimestamp |-> bestSegment.start]

\* styleMap[label] || 'crossfade'
styleMap(label) ==
  CASE label = "dramatic-cut" -> "cut"
    [] label = "hard-cut" -> "cut"
    [] label = "glitch-whip" -> "glitch"
    [] label = "crossfade" -> "crossfade"
    [] OTHER -> "crossfade"

\* <<baseDuration, level>> at which the double evaluation of
\* (baseDuration + level / 400) * 100 falls below the exact half
DurationBelowHalf == { <<0, 58>>, <<30, 58>>, <<30, 62>>, <<30, 94>>, <<30, 98>> }

\* Math.round((baseDuration + level / 400) * 100) / 100, in hundredths
TransitionDuration(type, level) ==
  LET baseDuration == IF type = "cut" THEN 0 ELSE 30
  IN RoundDouble(4 * baseDuration + level, 4, <<baseDuration, level>> \in DurationBelowHalf)

\* the directive between segments i and i + 1 (1-based)
TransitionAt(segments, i, baseType, level) ==
  LET current == segments[i]
      next == segments[i + 1]
      phaseChange == current.phase # next.phase
      type == IF phaseChange /\ level > 50
              THEN (IF baseType = "crossfade" THEN "zoom-through" ELSE "whip")
              ELSE baseType
      common == [phaseChange |-> phaseChange, fromPhase |-> current.phase,
                 toPhase |-> next.phase]
  IN [type |-> type,
      at |-> current.end,
      duration |-> TransitionDuration(type, level),
      params |-> IF type = "glitch"
                 THEN [phaseChange |-> phaseChange, fromPhase |-> current.phase,
                       toPhase |-> next.phase,
                       slices |-> level \div 10, rgbShift |-> level > 60]
                 ELSE IF type = "crossfade"
                      THEN [phaseChange |-> phaseChange, fromPhase |-> current.phase,
                            toPhase |-> next.phase, curve |-> "easeInOut"]
                      ELSE common]

\* the module without its level-0 early return
enhanceTransitionsUnguarded(cp, level) ==
  IF Len(cp.segments) < 2 THEN <<>>
  ELSE LET baseType == styleMap(Field(cp, "templateTransitionStyle"))
       IN [i \in 1..(Len(cp.segments) - 1) |-> TransitionAt(cp.segments, i, baseType, level)]

enhanceTransitions(cp, level) ==
  IF level = 0 \/ Len(cp.segments) < 2 THEN <<>>
  ELSE LET baseType == styleMap(Field(cp, "templateTransitionStyle"))
       IN [i \in 1..(Len(cp.segments) - 1) |-> TransitionAt(cp.segments, i, baseType, level)]

\* the orchestrator that also writes each segment's effect count back into
\* the segment's own enhancements property
applyEnhancementsTagging(cp, lv) ==
  LET planWithLevels == ("levels" :> lv) @@ cp
      tagged == [i \in 1..Len(cp.segments) |->
                  ("enhancements" :> [effects |-> Len(EffectsLoop(<<cp.segments[i]>>, cp.mood,
                                                                  lv.effects))])
                    @@ cp.segments[i]]
  IN ("enhancements" :>
        [bgm |-> enhanceBGM(planWithLevels, lv.bgm),
         subtitles |-> enhanceSubtitles(planWithLevels, lv.subtitles),
         effects |-> enhanceEffects(planWithLevels, lv.effects),
         hook |-> enhanceHook(planWithLevels, lv.hook),
         transitions |-> enhanceTransitions(planWithLevels, lv.transitions)])
     @@ ("segments" :> tagged) @@ planWithLevels

\* { ...planWithLevels, enhancements: { bgm, subtitles, effects, hook, transitions } }
applyEnhancements(cp, lv) ==
  LET planWithLevels == ("levels" :> lv) @@ cp
  IN ("enhancements" :>
        [bgm |-> enhanceBGM(planWithLevels, lv.bgm),
         subtitles |-> enhanceSubtitles(planWithLevels, lv.subtitles),
         effects |-> enhanceEffects(planWithLevels, lv.effects),
         hook |-> enhanceHook(planWithLevels, lv.hook),
         transitions |-> enhanceTransitions(planWithLevels, lv.transitions)])
     @@ planWithLevels

(* ---------------------------------------------------------------------- *)
(* Story Engine as a state machine: moments are detected one at a time,    *)
(* then buildStoryArc runs to completion on the list, in the order given   *)
(* or reversed.                                                            *)
(* ---------------------------------------------------------------------- *)
NoArc == [empty |-> TRUE, none |-> TRUE]
NoPlan == [none |-> TRUE]
NoConfig == [none |-> TRUE]
NoPersona == [none |-> TRUE]
NoSummary == [none |-> TRUE]
NoMatch == [none |-> TRUE]
NoLevels == [none |-> TRUE]
NoClipPlan == [none |-> TRUE]
NoEnhanced == [none |-> TRUE]
NoRun == [none |-> TRUE]

IdleStory == moments = <<>> /\ arc = NoArc /\ requested = Undefined
IdleNarrative == highlights = <<>> /\ plan = NoPlan
IdlePersona ==
  /\ config = NoConfig /\ persona = NoPersona /\ summary = NoSummary
  /\ match = NoMatch /\ defaults = NoLevels /\ levels = NoLevels
IdleEnhancer == clipPlan = NoClipPlan /\ sliders = NoLevels /\ enhanced = NoEnhanced
IdlePipeline == run = NoRun

MomentTypes == {"kill"}

InitStory ==
  /\ pc = "collect"
  /\ template \in 1..Len(TEMPLATES)
  /\ moments = <<>>
  /\ arc = NoArc
  /\ requested = Undefined
  /\ IdleNarrative
  /\ IdlePersona
  /\ IdleEnhancer
  /\ IdlePipeline

\* the detection collaborator reports one more moment, in chronological order
AddMoment ==
  /\ pc = "collect"
  /\ Len(moments) < MaxMoments
  /\ \E t \in Times, s \in Scores, ty \in MomentTypes :
       /\ moments # <<>> => t >= moments[Len(moments)].timestamp
       /\ moments' = Append(moments,
            [id |-> Len(moments) + 1, timestamp |-> t, score |-> s, type |-> ty])
  /\ UNCHANGED <<pc, template, arc, requested,
                 narrativeVars, personaVars, enhancerVars, pipelineVars>>

\* the caller hands the list over latest-first instead
ReverseMoments ==
  /\ pc = "collect"
  /\ Len(moments) >= 2
  /\ moments' = Reverse(moments)
  /\ pc' = "ready"
  /\ UNCHANGED <<template, arc, requested,
                 narrativeVars, personaVars, enhancerVars, pipelineVars>>

BuildStoryArc ==
  /\ pc \in {"collect", "ready"}
  /\ arc' = buildStoryArc(moments, TEMPLATES[template])
  /\ pc' = "done"
  /\ UNCHANGED <<template, moments, requested,
                 narrativeVars, personaVars, enhancerVars, pipelineVars>>

\* the template ids a caller may hand over: the catalog's, one that is not
\* in the catalog, or none at all
UnknownTemplateId == "no-such-template"
RequestedIds == TemplateIds \cup {UnknownTemplateId, Undefined}

\* generateMockArc(templateId = 'comeback-king'): the demo moments are built
\* into an arc for getTemplate(templateId) || getTemplate('comeback-king');
\* require() is a CommonJS global, so in a build that loads the file as an
\* ES module line 214 throws before the template is looked up
GenerateMockArc ==
  /\ pc = "collect"
  /\ moments = <<>>
  /\ moments' = mockMoments
  /\ \E templateId \in RequestedIds, requireDefined \in BOOLEAN :
       /\ requested' = templateId
       /\ IF requireDefined
          THEN /\ template' = mockTemplate(templateId)
               /\ arc' = buildStoryArc(mockMoments, TEMPLATES[mockTemplate(templateId)])
               /\ pc' = "done"
          ELSE /\ template' = template
               /\ arc' = arc
               /\ pc' = "thrown"
  /\ UNCHANGED <<narrativeVars, personaVars, enhancerVars, pipelineVars>>

NextStory == AddMoment \/ ReverseMoments \/ BuildStoryArc \/ GenerateMockArc

SpecStory == InitStory /\ [][NextStory]_vars

(* ---------------------------------------------------------------------- *)
(* Story Engine properties                                                 *)
(* ---------------------------------------------------------------------- *)
StoryBuilt == pc = "done" /\ Len(moments) >= 1

PhaseNames == {"hook", "rising", "climax", "falling", "outro"}

\* the moments that met the climax test of the partition loop on their own
ClimaxByTest(a) ==
  SelectSeq(a.sorted, LAMBDA m :
    PhaseOf(m, a.sorted[1].timestamp,
            a.sorted[Len(a.sorted)].timestamp - a.sorted[1].timestamp,
            a.climaxCenter, TEMPLATES[template].structure) = "climax")

ClimaxForced == StoryBuilt /\ ClimaxByTest(arc) = <<>>

\* C1: for every non-empty moment list and every template structure the
\* phase partition has at least one moment in climax and the arc has at
\* least one beat whose phase is climax.
C1_ClimaxNeverEmpty ==
  StoryBuilt =>
    /\ Len(arc.phases.climax) >= 1
    /\ \E k \in 1..Len(arc.beats) : arc.beats[k].phase = "climax"

\* C1 witness: an arc of several moments none of which met the climax test,
\* so that the climax holds only the forced moment.
C1_Witness == ClimaxForced /\ Len(moments) >= 3 /\ Len(arc.phases.climax) = 1

PhaseSizes(a) ==
  Len(a.phases.hook) + Len(a.phases.rising) + Len(a.phases.climax)
    + Len(a.phases.falling) + Len(a.phases.outro)

InPhase(a, p, id) == \E k \in 1..Len(a.phases[p]) : a.phases[p][k].id = id

\* C2: every input moment is in exactly one of the phase lists: the sizes
\* of the lists sum to the number of moments and no moment is in two lists,
\* also when the highest-scoring moment is forced into an empty climax.
C2_PlacedExactlyOnce ==
  StoryBuilt =>
    /\ PhaseSizes(arc) = Len(moments)
    /\ \A id \in 1..Len(moments) :
         Cardinality({p \in PhaseNames : InPhase(arc, p, id)}) = 1

\* C3: all four emotion-curve values of the returned arc are within
\* [0,100], for the empty list as well.
C3_EmotionCurveInRange ==
  pc = "done" =>
    /\ arc.emotionCurve.opening \in 0..100
    /\ arc.emotionCurve.midpoint \in 0..100
    /\ arc.emotionCurve.peak \in 0..100
    /\ arc.emotionCurve.closing \in 0..100

\* C3 witness: an arc with beats in all four phases whose peak is 100 and
\* whose opening is an average over two hook beats.
C3_Witness ==
  /\ StoryBuilt
  /\ Len(BeatsOf(arc.beats, "hook")) >= 2
  /\ Len(BeatsOf(arc.beats, "rising")) >= 1
  /\ Len(BeatsOf(arc.beats, "outro")) >= 1
  /\ arc.emotionCurve.peak = 100
  /\ arc.emotionCurve.opening = 80

(* ---------------------------------------------------------------------- *)
(* Narrative Builder as a state machine: highlights are reported one at a  *)
(* time in any order, then the plan is built for some padding and budget.  *)
(* ---------------------------------------------------------------------- *)
InitNarrative ==
  /\ pc = "collect"
  /\ template \in 1..Len(TEMPLATES)
  /\ highlights = <<>>
  /\ plan = NoPlan
  /\ IdleStory
  /\ IdlePersona
  /\ IdleEnhancer
  /\ IdlePipeline

AddHighlight ==
  /\ pc = "collect"
  /\ Len(highlights) < MaxHighlights
  /\ \E h \in HighlightPool :
       highlights' = Append(highlights,
         [id |-> Len(highlights) + 1, timestamp |-> h.timestamp, score |-> h.score])
  /\ UNCHANGED <<pc, template, plan, storyVars, personaVars, enhancerVars, pipelineVars>>

BuildNarrative ==
  /\ pc = "collect"
  /\ \E padding \in Paddings, maxDuration \in MaxDurations :
       plan' = buildNarrative(highlights, TEMPLATES[template], padding, maxDuration)
  /\ pc' = "done"
  /\ UNCHANGED <<template, highlights, storyVars, personaVars, enhancerVars, pipelineVars>>

NextNarrative == AddHighlight \/ BuildNarrative

SpecNarrative == InitNarrative /\ [][NextNarrative]_vars

(* ---------------------------------------------------------------------- *)
(* Narrative Builder properties                                            *)
(* ---------------------------------------------------------------------- *)
PlanBuilt == pc = "done" /\ Len(highlights) >= 1

\* C4: the segments of the returned plan are ordered by start, pairwise
\* non-overlapping (each start greater than the previous end) and every
\* returned segment has start < end, a zero maximum duration included.
C4_SegmentsDisjoint ==
  pc = "done" =>
    \A k \in 1..Len(plan.segments) :
      /\ plan.segments[k].start < plan.segments[k].end
      /\ k > 1 => plan.segments[k].start > plan.segments[k - 1].end

\* C5: totalDuration is the sum of the segment durations and never exceeds
\* the maximum; a truncated segment is the last one included, its duration
\* is exactly the budget left before it, and later merged segments are
\* dropped (only then).
C5_BudgetRespected ==
  pc = "done" =>
    LET segs == plan.segments
        m == plan.merged
        k == Len(segs)
        durs == SegDurations(segs)
        left == plan.maxDuration - SumSeq(SubSeq(durs, 1, k - 1))
    IN /\ plan.totalDuration = SumSeq(durs)
       /\ plan.totalDuration <= plan.maxDuration
       /\ k <= Len(m)
       /\ \A j \in 1..(k - 1) : segs[j] = m[j]
       /\ k > 0 =>
            \/ segs[k] = m[k] /\ k = Len(m)
            \/ /\ segs[k] = [m[k] EXCEPT !.end = m[k].start + left]
               /\ m[k].end - m[k].start > left

\* C5 witness: a plan whose second segment was truncated to a positive
\* remainder and whose later merged segment was dropped.
C5_Witness ==
  /\ PlanBuilt
  /\ Len(plan.segments) = 2
  /\ Len(plan.merged) = 3
  /\ plan.segments[2].end < plan.merged[2].end
  /\ plan.segments[2].end > plan.segments[2].start
  /\ plan.totalDuration = plan.maxDuration

TaggedAs(p) == Cardinality({k \in 1..Len(plan.tagged) : plan.tagged[k].phase = p})

GroupOf(j) ==
  {k \in 1..Len(plan.padded) :
     /\ plan.merged[j].start <= plan.padded[k].start
     /\ plan.padded[k].end <= plan.merged[j].end}

SetMax(S) == CHOOSE x \in S : \A y \in S : y <= x
SetMin(S) == CHOOSE x \in S : \A y \in S : x <= y

IsScenario ==
  /\ Len(highlights) = 3
  /\ {[timestamp |-> highlights[k].timestamp, score |-> highlights[k].score] : k \in 1..3}
       = {[timestamp |-> 10, score |-> 95], [timestamp |-> 12, score |-> 40],
          [timestamp |-> 60, score |-> 70]}
  /\ plan.padding = 2
  /\ plan.maxDuration = 1000

\* C7: two padded segments are merged exactly when the later one's start is
\* <= the earlier one's end; the merged segment keeps the earlier start,
\* takes the larger end, and its score and phase come from the source
\* segment with the higher score.  Highlights at 10 (95), 12 (40), 60 (70)
\* with padding 2 and maximum 1000 give [8,14] score 95 and [58,62] score 70,
\* total duration 10.
C7_MergeRule ==
  PlanBuilt =>
    LET P == plan.padded
        M == plan.merged
    IN /\ \A k \in 1..Len(P) : \E j \in 1..Len(M) : k \in GroupOf(j)
       /\ \A j \in 1..Len(M) :
            LET G == GroupOf(j)
                top == SetMax({P[k].score : k \in G})
            IN /\ G # {}
               /\ j > 1 => M[j].start > M[j - 1].end
               /\ M[j].start = SetMin({P[k].start : k \in G})
               /\ M[j].end = SetMax({P[k].end : k \in G})
               /\ M[j].score = top
               /\ \E k \in G : P[k].score = top /\ P[k].phase = M[j].phase
               /\ \A k \in G : k > SetMin(G) =>
                    P[k].start <= SetMax({P[i].end : i \in {i \in G : i < k}})
       /\ IsScenario =>
            /\ [k \in 1..Len(plan.segments) |->
                  <<plan.segments[k].start, plan.segments[k].end, plan.segments[k].score>>]
                 = << <<8, 14, 95>>, <<58, 62, 70>> >>
            /\ plan.totalDuration = 10

\* C7 witness: the scenario itself, built.
C7_Witness == PlanBuilt /\ IsScenario /\ Len(plan.segments) = 2

(* ---------------------------------------------------------------------- *)
(* Persona operations as state machines: a PersonaConfig is given, the     *)
(* persona is constructed, then matchTemplate (SpecMatch) or               *)
(* customizeEnhancements (SpecCustomize) is called with it.                *)
(* ---------------------------------------------------------------------- *)
\* every slider at the same level, besides the catalog's own defaults
UniformLevels == {[bgm |-> d, subtitles |-> d, effects |-> d, hook |-> d, transitions |-> d] :
                    d \in 0..100}
CatalogDefaults == {TEMPLATES[k].enhancement_defaults : k \in 1..Len(TEMPLATES)}

\* matchTemplate does not read edit_intensity
InitMatch ==
  /\ pc = "config"
  /\ template = 1
  /\ config \in [energy_level : RawLevels, humor_style : HumorInputs,
                 preferred_template : TemplateIds \cup PreferredInputs,
                 edit_intensity : {5}]
  /\ persona = NoPersona /\ summary = NoSummary /\ match = NoMatch
  /\ defaults = NoLevels /\ levels = NoLevels
  /\ IdleStory
  /\ IdleNarrative
  /\ IdleEnhancer
  /\ IdlePipeline

\* customizeEnhancements does not read preferred_template
InitCustomize ==
  /\ pc = "config"
  /\ template = 1
  /\ config \in [energy_level : RawLevels, humor_style : HumorInputs,
                 preferred_template : {""},
                 edit_intensity : RawLevels]
  /\ persona = NoPersona /\ summary = NoSummary /\ match = NoMatch
  /\ defaults = NoLevels /\ levels = NoLevels
  /\ IdleStory
  /\ IdleNarrative
  /\ IdleEnhancer
  /\ IdlePipeline

ConstructPersona ==
  /\ pc = "config"
  /\ persona' = StreamerPersona(config)
  /\ pc' = "persona"
  /\ UNCHANGED <<template, config, summary, match, defaults, levels,
                 storyVars, narrativeVars, enhancerVars, pipelineVars>>

MatchTemplate ==
  /\ pc = "persona"
  /\ \E hl \in Summaries :
       /\ summary' = hl
       /\ match' = matchTemplate(persona, hl)
  /\ pc' = "matched"
  /\ UNCHANGED <<template, config, persona, defaults, levels,
                 storyVars, narrativeVars, enhancerVars, pipelineVars>>

CustomizeEnhancements ==
  /\ pc = "persona"
  /\ \E d \in CatalogDefaults \cup UniformLevels :
       /\ defaults' = d
       /\ levels' = customizeEnhancements(persona, d)
  /\ pc' = "customized"
  /\ UNCHANGED <<template, config, persona, summary, match,
                 storyVars, narrativeVars, enhancerVars, pipelineVars>>

NextMatch == ConstructPersona \/ MatchTemplate
NextCustomize == ConstructPersona \/ CustomizeEnhancements

SpecMatch == InitMatch /\ [][NextMatch]_vars
SpecCustomize == InitCustomize /\ [][NextCustomize]_vars

(* ---------------------------------------------------------------------- *)
(* Template Matcher and Enhancement Customizer properties                  *)
(* ---------------------------------------------------------------------- *)
CatalogIndex(id) == CHOOSE k \in 1..Len(TEMPLATES) : TEMPLATES[k].id = id

BestScore(m) == SetMax({m.allScores[id] : id \in TemplateIds})

\* the catalog position of the first template holding the best score
FirstBest(m) == SetMin({k \in 1..Len(TEMPLATES) : m.allScores[TEMPLATES[k].id] = BestScore(m)})

PreferredIsBest(m) ==
  /\ persona.preferred_template \in TemplateIds
  /\ m.allScores[persona.preferred_template] = BestScore(m)

\* C8: matchTemplate returns the template with the highest score, every
\* score within [0,100] and the returned score the maximum of the score
\* map; on a tie the first in catalog order wins, unless the persona's
\* preferred template is among the tied best, then it wins.  The scores,
\* and so the winner, are fixed by persona, summary and catalog.
C8_BestTemplateWins ==
  pc = "matched" =>
    /\ DOMAIN match.allScores = TemplateIds
    /\ \A id \in TemplateIds :
         /\ match.allScores[id] \in 0..100
         /\ match.allScores[id]
              = scoreTemplateMatch(persona, summary, TEMPLATES[CatalogIndex(id)])
    /\ match.score = BestScore(match)
    /\ match.allScores[match.template] = match.score
    /\ match.template = IF PreferredIsBest(match)
                        THEN persona.preferred_template
                        ELSE TEMPLATES[FirstBest(match)].id

\* C8 witness: the preferred template ties for best with a template earlier
\* in the catalog, and is returned.
C8_Witness ==
  /\ pc = "matched"
  /\ PreferredIsBest(match)
  /\ CatalogIndex(persona.preferred_template) > FirstBest(match)
  /\ match.template = persona.preferred_template

\* C9: for every persona (levels 1..10 after construction), every humor
\* style and every set of default levels in 0..100, each of the five
\* customized levels is an integer in [0,100].
C9_LevelsInRange ==
  pc = "customized" =>
    \A f \in {"bgm", "subtitles", "effects", "hook", "transitions"} :
      levels[f] \in 0..100

\* C9 witness: a customization that reaches the upper end of the range, for
\* bgm by clamping 112.5 down.
C9_Witness ==
  /\ pc = "customized"
  /\ defaults.bgm = 100 /\ persona.energy_level = 1
  /\ levels.bgm = 100
  /\ levels.subtitles = 100

\* C10: for energy_level 1 and edit_intensity 1 and the defaults of any
\* catalog template, bgm comes out strictly above its default and effects,
\* hook and transitions strictly below theirs.
C10_LowEnergyPersona ==
  (/\ pc = "customized"
   /\ persona.energy_level = 1 /\ persona.edit_intensity = 1
   /\ defaults \in CatalogDefaults) =>
    /\ levels.bgm > defaults.bgm
    /\ levels.effects < defaults.effects
    /\ levels.hook < defaults.hook
    /\ levels.transitions < defaults.transitions

\* C10 witness: the comeback-king defaults (80, 60, 75, 90, 70) customized
\* for the 1/1 persona.
C10_Witness ==
  /\ pc = "customized"
  /\ persona.energy_level = 1 /\ persona.edit_intensity = 1
  /\ defaults = TEMPLATES[1].enhancement_defaults
  /\ levels.bgm = 93 /\ levels.effects = 42 /\ levels.hook = 58 /\ levels.transitions = 39

(* ---------------------------------------------------------------------- *)
(* Enhancer as a state machine: a ClipPlan of ordered, non-overlapping     *)
(* segments is assembled for a catalog template, then applyEnhancements    *)
(* runs on it with some slider levels.                                     *)
(* ---------------------------------------------------------------------- *)
SegScores == {0, 80, 90}          \* below, at the slow-mo and at the zoom threshold
SegPhases == {"build", "climax"}
\* the property a plan carries the template's transition style under: the
\* ClipPlan field of the data model, or the one enhanceTransitions reads
StyleFields == {"transitionStyle", "templateTransitionStyle"}
SliderInputs == UniformLevels \cup CatalogDefaults

InitEnhance ==
  /\ pc = "plan"
  /\ template \in 1..Len(TEMPLATES)
  /\ \E f \in StyleFields :
       clipPlan = (f :> TEMPLATES[template].transition_style)
                    @@ [templateId |-> TEMPLATES[template].id,
                        mood |-> TEMPLATES[template].mood,
                        segments |-> <<>>, totalDuration |-> 0]
  /\ sliders = NoLevels
  /\ enhanced = NoEnhanced
  /\ IdleStory
  /\ IdleNarrative
  /\ IdlePersona
  /\ IdlePipeline

\* the next segment of the plan: 4 seconds around the next multiple of 10
AddSegment ==
  /\ pc = "plan"
  /\ Len(clipPlan.segments) < MaxSegments
  /\ \E s \in SegScores, p \in SegPhases :
       LET t == 10 * (Len(clipPlan.segments) + 1)
       IN clipPlan' = [clipPlan EXCEPT
                         !.segments = Append(@, [start |-> t - 2, end |-> t + 2,
                                                 score |-> s, phase |-> p]),
                         !.totalDuration = @ + 4]
  /\ UNCHANGED <<pc, template, sliders, enhanced,
                 storyVars, narrativeVars, personaVars, pipelineVars>>

ApplyEnhancements ==
  /\ pc = "plan"
  /\ \E lv \in SliderInputs :
       /\ sliders' = lv
       /\ enhanced' = applyEnhancements(clipPlan, lv)
  /\ pc' = "enhanced"
  /\ UNCHANGED <<template, clipPlan, storyVars, narrativeVars, personaVars, pipelineVars>>

NextEnhance == AddSegment \/ ApplyEnhancements

SpecEnhance == InitEnhance /\ [][NextEnhance]_vars

(* ---------------------------------------------------------------------- *)
(* Enhancer properties                                                     *)
(* ---------------------------------------------------------------------- *)
ModuleNames == {"bgm", "subtitles", "effects", "hook", "transitions"}

\* C11: applyEnhancements returns a plan whose segments list is the input's
\* (same segments, same order, same start/end/score/phase) and which keeps
\* every other field of the input, leaves the input plan as it was, and
\* attaches the outputs of the five modules, each run at its own slider,
\* under one enhancements field.
C11_PlanPreserved ==
  [][pc' = "enhanced" =>
       /\ clipPlan' = clipPlan
       /\ enhanced'.segments = clipPlan.segments
       /\ \A f \in DOMAIN clipPlan : enhanced'[f] = clipPlan[f]
       /\ DOMAIN enhanced' = DOMAIN clipPlan \cup {"levels", "enhancements"}
       /\ DOMAIN enhanced'.enhancements = ModuleNames
       /\ enhanced'.enhancements.bgm = enhanceBGM(clipPlan, sliders'.bgm)
       /\ enhanced'.enhancements.subtitles = enhanceSubtitles(clipPlan, sliders'.subtitles)
       /\ enhanced'.enhancements.effects = enhanceEffects(clipPlan, sliders'.effects)
       /\ enhanced'.enhancements.hook = enhanceHook(clipPlan, sliders'.hook)
       /\ enhanced'.enhancements.transitions
            = enhanceTransitions(clipPlan, sliders'.transitions)]_vars

\* C11 witness: a three-segment plan enhanced with unequal sliders, every
\* list-valued module having produced directives.
C11_Witness ==
  /\ pc = "enhanced"
  /\ Len(enhanced.segments) = 3
  /\ sliders \notin UniformLevels
  /\ Len(enhanced.enhancements.subtitles) = 3
  /\ Len(enhanced.enhancements.effects) >= 1
  /\ Len(enhanced.enhancements.transitions) = 2

Transitions == enhanced.enhancements.transitions

\* C12: every emitted transition directive of type cut has duration 0, and
\* every directive of another type has duration 0.3 + level/400 rounded to
\* two decimals: in hundredths, a whole number within one half of
\* 30 + level/4 (a tie may round either way).
C12_TransitionDurations ==
  pc = "enhanced" =>
    \A k \in 1..Len(Transitions) :
      IF Transitions[k].type = "cut"
      THEN Transitions[k].duration = 0
      ELSE Abs(4 * Transitions[k].duration - (120 + sliders.transitions)) <= 2

\* C13: enhanceTransitions returns the empty list when the level is 0 or the
\* plan has fewer than 2 segments; otherwise one directive per adjacent pair
\* of segments, in segment order, the i-th at the end time of segment i and
\* recording the phases of segments i and i+1.
C13_OnePerAdjacentPair ==
  pc = "enhanced" =>
    LET segs == clipPlan.segments
    IN IF sliders.transitions = 0 \/ Len(segs) < 2
       THEN Transitions = <<>>
       ELSE /\ Len(Transitions) = Len(segs) - 1
            /\ \A i \in 1..(Len(segs) - 1) :
                 /\ Transitions[i].at = segs[i].end
                 /\ Transitions[i].params.fromPhase = segs[i].phase
                 /\ Transitions[i].params.toPhase = segs[i + 1].phase

\* C13 witness: three segments of alternating phase at a positive level,
\* giving two directives.
C13_Witness ==
  /\ pc = "enhanced"
  /\ Len(clipPlan.segments) = 3
  /\ sliders.transitions > 0
  /\ Len(Transitions) = 2
  /\ Transitions[1].params.fromPhase # Transitions[1].params.toPhase
  /\ Transitions[2].params.fromPhase # Transitions[2].params.toPhase
  /\ Transitions[1].at < Transitions[2].at

\* the lookup of a transition-style label as the data model states it
BaseTypeOfLabel(label) ==
  IF label \in {"dramatic-cut", "hard-cut"} THEN "cut"
  ELSE IF label = "glitch-whip" THEN "glitch"
  ELSE "crossfade"

\* C14: for a plan carrying the template's transition style in its
\* transitionStyle field, the base type is the lookup of that label, and
\* each pair's directive has the base type unless the two phases differ and
\* level > 50, when it is zoom-through for a crossfade base and whip
\* otherwise.
C14_TypeFromTemplateStyle ==
  (pc = "enhanced" /\ "transitionStyle" \in DOMAIN clipPlan) =>
    LET base == BaseTypeOfLabel(clipPlan.transitionStyle)
        segs == clipPlan.segments
    IN \A i \in 1..Len(Transitions) :
         Transitions[i].type
           = IF segs[i].phase # segs[i + 1].phase /\ sliders.transitions > 50
             THEN (IF base = "crossfade" THEN "zoom-through" ELSE "whip")
             ELSE base

Effects == enhanced.enhancements.effects

\* the types of the directives placed on segment seg, in emission order
EffectTypesOn(fx, seg) ==
  LET on == SelectSeq(fx, LAMBDA d : d.start \div HalfSec = seg.start)
  IN [k \in 1..Len(on) |-> on[k].type]

C16_HookPreviewsBestSegment ==
  pc = "enhanced" =>
    LET hook == enhanced.enhancements.hook
        level == sliders.hook
        segs == clipPlan.segments
    IN /\ hook.duration = (IF level > 70 THEN 6 ELSE IF level > 40 THEN 5 ELSE 4)
       /\ Len(segs) >= 1 =>
            \E i \in 1..Len(segs) :
              /\ hook.previewTimestamp = segs[i].start
              /\ \A j \in 1..Len(segs) : segs[j].score <= segs[i].score

(* ---------------------------------------------------------------------- *)
(* Persona construction, empty arc and demo arc properties                 *)
(* ---------------------------------------------------------------------- *)
ClampedLevel(raw) == IF raw < 1 THEN 1 ELSE IF raw > 10 THEN 10 ELSE raw

\* C17: a StreamerPersona constructed from any integer energy_level and
\* edit_intensity has both fields in 1..10: a value below 1 becomes 1, a
\* value above 10 becomes 10, a value in range is kept.
C17_LevelsClamped ==
  pc \in {"persona", "customized"} =>
    /\ persona.energy_level \in 1..10
    /\ persona.edit_intensity \in 1..10
    /\ persona.energy_level = ClampedLevel(config.energy_level)
    /\ persona.edit_intensity = ClampedLevel(config.edit_intensity)

\* C17 witness: a persona constructed from an energy_level below 1 and an
\* edit_intensity above 10.
C17_Witness ==
  /\ pc = "persona"
  /\ config.energy_level < 1 /\ persona.energy_level = 1
  /\ config.edit_intensity > 10 /\ persona.edit_intensity = 10

\* C18: buildStoryArc on an empty moment list returns the fixed empty arc:
\* no beats, hookEnd = risingEnd = climaxEnd = totalDuration = 0, an
\* all-zero emotion curve and the placeholder title and logline, whatever
\* the template.
C18_EmptyArcIsFixed ==
  (pc = "done" /\ moments = <<>>) =>
    /\ arc.beats = <<>>
    /\ arc.structure = [hookEnd |-> 0, risingEnd |-> 0, climaxEnd |-> 0, totalDuration |-> 0]
    /\ arc.emotionCurve = [opening |-> 0, midpoint |-> 0, peak |-> 0, closing |-> 0]
    /\ arc.title = "No Story Yet"
    /\ arc.logline = "Upload a VOD to generate your story."

\* C18 witness: the arc built from no moments for the rage-quit-montage
\* template.
C18_Witness ==
  /\ pc = "done" /\ moments = <<>>
  /\ TEMPLATES[template].id = "rage-quit-montage"
  /\ arc.title = "No Story Yet"

MockArcBuilt == pc = "done" /\ moments = mockMoments /\ TEMPLATES[template].id = "comeback-king"

\* the 3 consecutive moments that include both the score-92 and the score-96 one
ClutchWindow(sorted) ==
  CHOOSE w \in {{sorted[k], sorted[k + 1], sorted[k + 2]} : k \in 1..(Len(sorted) - 2)} :
    {92, 96} \subseteq {m.score : m \in w}

\* C19: for the 11 demo moments with the comeback-king structure the climax
\* center is the timestamp of a moment of the 3-moment window holding the
\* score-92 and score-96 moments, and the climax phase is non-empty and
\* holds the score-96 moment.
C19_MockClimax ==
  MockArcBuilt =>
    /\ Len(moments) = 11
    /\ [k \in 1..11 |-> moments[k].score] = <<30, 25, 55, 72, 65, 60, 78, 92, 88, 96, 85>>
    /\ moments[1].timestamp = 12 /\ moments[11].timestamp = 478
    /\ arc.climaxCenter \in {m.timestamp : m \in ClutchWindow(arc.sorted)}
    /\ arc.phases.climax # <<>>
    /\ \E k \in 1..Len(arc.phases.climax) : arc.phases.climax[k].score = 96

\* C19 witness: the demo arc for comeback-king, centred on the score-88
\* moment at 400 s with five moments in the climax.
C19_Witness ==
  /\ MockArcBuilt
  /\ arc.climaxCenter = 400
  /\ Len(arc.phases.climax) = 5

(* ---------------------------------------------------------------------- *)
(* Pipeline Orchestrator, from spec sections 4.7, 5, 6 and 7: one run as a *)
(* linear state machine  extract -> detect -> select-template ->           *)
(* build-narrative -> enhance -> render | dry-run-skip,  then the          *)
(* best-effort removal of the extracted frames.  pc is the stage.          *)
(* ---------------------------------------------------------------------- *)
MaxDetected == 2   \* most highlights the detection collaborator reports in a run

\* how the template is selected: an explicit id that is in the catalog or is
\* not, a persona (Template Matcher), or the fixed default
Selections == {"explicit", "unknown-id", "persona", "default"}

\* a stage fails: the run is fatal at that stage and goes to the cleanup
FailAt(r, stage) == [r EXCEPT !.error = stage]

\* the cleanup skipped when the run has failed
cleanupOnSuccessOnly(r, removed) ==
  IF r.error # "none" THEN [r EXCEPT !.cleanup = "skipped"]
  ELSE [r EXCEPT !.cleanup = IF removed THEN "done" ELSE "failed",
                 !.frames = IF removed THEN "removed" ELSE r.frames]

\* removal of the temporary extracted-frame artifacts after the run,
\* whatever its outcome; a failed removal is swallowed: the frames stay, the
\* run's result and error are not touched
cleanup(r, removed) ==
  [r EXCEPT !.cleanup = IF removed THEN "done" ELSE "failed",
            !.frames = IF removed THEN "removed" ELSE r.frames]

InitPipeline ==
  /\ pc = "extract"
  /\ template = 1
  /\ run \in [dryRun : BOOLEAN, selection : Selections, frames : {"none"},
              highlights : {0}, result : {"none"}, error : {"none"},
              cleanup : {"pending"}]
  /\ IdleStory
  /\ IdleNarrative
  /\ IdlePersona
  /\ IdleEnhancer

\* frame extraction by the external transcoder: the run's fresh temporary
\* directory holds frames from here on; a nonzero exit or timeout is fatal
Extract ==
  /\ pc = "extract"
  /\ \E ok \in BOOLEAN :
       IF ok
       THEN run' = [run EXCEPT !.frames = "present"] /\ pc' = "detect"
       ELSE run' = FailAt([run EXCEPT !.frames = "present"], "extract") /\ pc' = "cleanup"
  /\ UNCHANGED <<template, storyVars, narrativeVars, personaVars, enhancerVars>>

Detect ==
  /\ pc = "detect"
  /\ \E n \in 0..MaxDetected : run' = [run EXCEPT !.highlights = n]
  /\ pc' = "select-template"
  /\ UNCHANGED <<template, storyVars, narrativeVars, personaVars, enhancerVars>>

\* an explicit id that is not in the catalog is fatal to the run
SelectTemplate ==
  /\ pc = "select-template"
  /\ IF run.selection = "unknown-id"
     THEN run' = FailAt(run, "select-template") /\ pc' = "cleanup"
     ELSE run' = run /\ pc' = "build-narrative"
  /\ UNCHANGED <<template, storyVars, narrativeVars, personaVars, enhancerVars>>

BuildPlan ==
  /\ pc = "build-narrative"
  /\ pc' = "enhance"
  /\ UNCHANGED <<template, run, storyVars, narrativeVars, personaVars, enhancerVars>>

Enhance ==
  /\ pc = "enhance"
  /\ pc' = "render"
  /\ UNCHANGED <<template, run, storyVars, narrativeVars, personaVars, enhancerVars>>

\* skipped in a dry run, which returns the plan without an output path; the
\* render collaborator fails loudly on an empty segment list and may fail
\* (nonzero exit, timeout) on any other
Render ==
  /\ pc = "render"
  /\ IF run.dryRun
     THEN run' = [run EXCEPT !.result = "plan"]
     ELSE \E ok \in BOOLEAN :
            IF ok /\ run.highlights > 0
            THEN run' = [run EXCEPT !.result = "output"]
            ELSE run' = FailAt(run, "render")
  /\ pc' = "cleanup"
  /\ UNCHANGED <<template, storyVars, narrativeVars, personaVars, enhancerVars>>

Cleanup ==
  /\ pc = "cleanup"
  /\ \E removed \in BOOLEAN : run' = cleanup(run, removed)
  /\ pc' = "finished"
  /\ UNCHANGED <<template, storyVars, narrativeVars, personaVars, enhancerVars>>

NextPipeline ==
  Extract \/ Detect \/ SelectTemplate \/ BuildPlan \/ Enhance \/ Render \/ Cleanup

SpecPipeline == InitPipeline /\ [][NextPipeline]_vars

\* every stage terminates: the external calls are bounded by timeouts and
\* everything else runs to completion
SpecPipelineLive == SpecPipeline /\ WF_vars(NextPipeline)

(* ---------------------------------------------------------------------- *)
(* Pipeline properties                                                     *)
(* ---------------------------------------------------------------------- *)
FramesExtracted == run.frames = "present"
FramesRemoved == run.frames = "removed"
CleanupAttempted == pc = "finished" /\ run.cleanup \in {"done", "failed"}

\* the cleanup step leaves the run's primary result and error as they were
CleanupKeepsOutcome ==
  [][pc = "cleanup" => (run'.result = run.result /\ run'.error = run.error)]_vars

\* C20 as stated: in every run that reaches frame extraction the extracted
\* frames are eventually removed, whether the run succeeds, is a dry run or
\* fails at a later stage, and a failure of the cleanup never changes the
\* run's result or error.
C20_FramesEventuallyRemoved ==
  /\ FramesExtracted ~> FramesRemoved
  /\ CleanupKeepsOutcome

\* C20 amended: in every run that reaches frame extraction the removal of
\* the extracted frames is eventually attempted, whether the run succeeds,
\* is a dry run or fails at a later stage; the frames are gone when the
\* removal succeeds and stay when it fails, and either way the cleanup
\* leaves the run's result and error as they were.
C20_CleanupAlwaysAttempted ==
  /\ FramesExtracted ~> CleanupAttempted
  /\ [](pc = "finished" => (run.cleanup = "done" <=> FramesRemoved))
  /\ CleanupKeepsOutcome

\* C20 witness: a run that failed at render and whose cleanup then removed
\* the frames, the render error still being the run's outcome.
C20_Witness ==
  /\ pc = "finished"
  /\ run.error = "render" /\ run.result = "none"
  /\ run.cleanup = "done" /\ FramesRemoved

(* ---------------------------------------------------------------------- *)
(* Template lookup and Story Engine internals                              *)
(* ---------------------------------------------------------------------- *)
MockBuilt == pc = "done" /\ moments = mockMoments

\* C21: a lookup of a template id that is not in the catalog is never
\* silently replaced by another template, except where no id was given: a
\* caller passing an explicit id gets a result built from that template only.
C21_UnknownIdNotReplaced ==
  (MockBuilt /\ requested # Undefined) => TEMPLATES[template].id = requested

\* the window position (0-based) the claim names: the first one whose score
\* sum is maximal over all positions 0..n-w
FirstBestWindow(sorted, w) ==
  LET positions == 0..(Len(sorted) - w)
      sum(i) == SumSeq([k \in 1..w |-> sorted[i + k].score])
  IN SetMin({i \in positions : \A j \in positions : sum(j) <= sum(i)})

\* C22: for n >= 3 sorted moments the climax center is the timestamp of the
\* moment at index i + floor(w/2), w = max(3, floor(0.3 n)), i the first
\* window position with the maximal score sum; for n <= 2 it is the last
\* moment's timestamp.
C22_CenterIsBestWindowMidpoint ==
  StoryBuilt =>
    LET sorted == arc.sorted
        n == Len(sorted)
        w == Max(3, (3 * n) \div 10)
    IN arc.climaxCenter
         = IF n <= 2 THEN sorted[n].timestamp
           ELSE sorted[FirstBestWindow(sorted, w) + (w \div 2) + 1].timestamp

\* C23: after the partition either every climax moment scores >= 70 and is
\* strictly closer to the climax center than half the climax budget, or the
\* climax was forced and holds exactly one moment, of the highest score of
\* all moments; every hook or rising moment lies strictly before
\* climaxCenter - climaxBudget/2, the hook moments being those whose offset
\* from the first moment is below the hook budget.
C23_PartitionRules ==
  StoryBuilt =>
    LET sorted == arc.sorted
        first == sorted[1].timestamp
        span == sorted[Len(sorted)].timestamp - first
        structure == TEMPLATES[template].structure
        c == arc.climaxCenter
        climax == arc.phases.climax
        early == arc.phases.hook \o arc.phases.rising
    IN /\ \/ \A k \in 1..Len(climax) :
               /\ climax[k].score >= 70
               /\ 200 * Abs(climax[k].timestamp - c) < span * structure.climax
          \/ /\ Len(climax) = 1
             /\ \A k \in 1..Len(sorted) : sorted[k].score <= climax[1].score
       /\ \A k \in 1..Len(early) :
            200 * (c - early[k].timestamp) > span * structure.climax
       /\ \A k \in 1..Len(arc.phases.hook) :
            100 * (arc.phases.hook[k].timestamp - first) < span * structure.intro
       /\ \A k \in 1..Len(arc.phases.rising) :
            100 * (arc.phases.rising[k].timestamp - first) >= span * structure.intro

\* C23 witness: an arc with hook and rising moments whose climax holds two
\* moments that met the test.
C23_Witness ==
  /\ StoryBuilt
  /\ Len(arc.phases.hook) >= 1
  /\ Len(arc.phases.rising) >= 1
  /\ Len(arc.phases.climax) >= 2
  /\ ~ClimaxForced

HookBeatsOfArc == BeatsOf(arc.beats, "hook")
RisingBeatsOfArc == BeatsOf(arc.beats, "rising")
ClimaxBeatsOfArc == BeatsOf(arc.beats, "climax")
OutroBeatsOfArc == BeatsOf(arc.beats, "outro")

TopScore(ms) == SetMax({ms[k].score : k \in 1..Len(ms)})

\* positions in beats of the beats satisfying test
Where(beats, test(_)) == {k \in 1..Len(beats) : test(beats[k])}

\* C24: with hook moments the arc has exactly one hook beat of type moment
\* per hook moment, intensity min(80, score + 20); without hook moments it
\* has exactly one hook beat, of type context, spanning max(0, t - 1) to
\* t + 1 for the timestamp t of the highest-scoring climax moment, with
\* music cue drop and pacing 0.5.
C24_HookBeats ==
  StoryBuilt =>
    LET hook == arc.phases.hook
        climax == arc.phases.climax
        hb == HookBeatsOfArc
    IN IF Len(hook) > 0
       THEN /\ Len(hb) = Len(hook)
            /\ \A k \in 1..Len(hook) :
                 Cardinality(Where(hb, LAMBDA b :
                   /\ b.type = "moment" /\ b.moment = hook[k].id
                   /\ b.intensity = Min(80, hook[k].score + 20))) = 1
       ELSE /\ Len(hb) = 1
            /\ hb[1].type = "context"
            /\ hb[1].musicCue = "drop"
            /\ hb[1].pacing = 50
            /\ \E k \in 1..Len(climax) :
                 /\ climax[k].score = TopScore(climax)
                 /\ hb[1].start = Max(0, HalfSec * (climax[k].timestamp - 1))
                 /\ hb[1].end = HalfSec * (climax[k].timestamp + 1)

IsPeakBeat(b) == b.type = "moment" /\ b.pacing = 50 /\ b.musicCue = "drop"

\* C25: every arc of a non-empty list has exactly one climax moment beat
\* treated as the peak (3 seconds each side of the timestamp, the start not
\* below 0, pacing 0.5, music cue drop), on a climax moment of maximal
\* score, and exactly one reaction beat in the climax phase, of intensity
\* 85, 2 seconds long, starting at the end of the peak beat; every other
\* climax moment beat has 2 seconds each side.
C25_OnePeakOneReaction ==
  StoryBuilt =>
    LET climax == arc.phases.climax
        cb == ClimaxBeatsOfArc
        peaks == Where(cb, IsPeakBeat)
        reactions == Where(cb, LAMBDA b : b.type = "reaction")
        others == Where(cb, LAMBDA b : b.type = "moment" /\ ~IsPeakBeat(b))
    IN /\ Cardinality(peaks) = 1
       /\ Cardinality(reactions) = 1
       /\ Cardinality(others) = Len(climax) - 1
       /\ Len(cb) = Len(climax) + 1
       /\ \A p \in peaks :
            /\ \E k \in 1..Len(climax) :
                 /\ climax[k].id = cb[p].moment
                 /\ climax[k].score = TopScore(climax)
                 /\ cb[p].start = Max(0, HalfSec * (climax[k].timestamp - 3))
                 /\ cb[p].end = HalfSec * (climax[k].timestamp + 3)
            /\ \A r \in reactions :
                 /\ cb[r].intensity = 85
                 /\ cb[r].end - cb[r].start = 2 * HalfSec
                 /\ cb[r].start = cb[p].end
       /\ \A o \in others :
            \E k \in 1..Len(climax) :
              /\ climax[k].id = cb[o].moment
              /\ cb[o].start = Max(0, HalfSec * (climax[k].timestamp - 2))
              /\ cb[o].end = HalfSec * (climax[k].timestamp + 2)

\* C25 witness: a climax of three moments, two of them tied for the top
\* score, with one peak beat and one reaction beat.
C25_Witness ==
  /\ StoryBuilt
  /\ Len(arc.phases.climax) = 3
  /\ Cardinality({k \in 1..3 : arc.phases.climax[k].score = TopScore(arc.phases.climax)}) = 2
  /\ Cardinality(Where(ClimaxBeatsOfArc, IsPeakBeat)) = 1
  /\ Len(ClimaxBeatsOfArc) = 4

\* C26: k rising moments give exactly k rising moment beats, of intensity
\* the raw score, and exactly max(0, k - 1) rising transition beats: one
\* for every rising moment but the chronologically last, 0.5 s long from
\* that moment's beat end (timestamp + 2), of intensity 60% of that
\* moment's score rounded down.
C26_RisingBeats ==
  StoryBuilt =>
    LET rising == arc.phases.rising
        k == Len(rising)
        rb == RisingBeatsOfArc
        transitions == Where(rb, LAMBDA b : b.type = "transition")
    IN /\ Cardinality(Where(rb, LAMBDA b : b.type = "moment")) = k
       /\ Cardinality(transitions) = Max(0, k - 1)
       /\ Len(rb) = k + Max(0, k - 1)
       /\ \A j \in 1..k :
            Cardinality(Where(rb, LAMBDA b :
              /\ b.type = "moment" /\ b.moment = rising[j].id
              /\ b.intensity = rising[j].score)) = 1
       /\ \A j \in 1..(k - 1) :
            Cardinality(Where(rb, LAMBDA b :
              /\ b.type = "transition"
              /\ b.start = HalfSec * (rising[j].timestamp + 2)
              /\ b.end = b.start + 1
              /\ b.intensity = (rising[j].score * 6) \div 10))
              = Cardinality({i \in 1..(k - 1) :
                               /\ rising[i].timestamp = rising[j].timestamp
                               /\ rising[i].score = rising[j].score})

\* C26 witness: two rising moments of different scores, so two moment beats
\* and one transition beat of intensity 42 after the first.
C26_Witness ==
  /\ StoryBuilt
  /\ Len(moments) <= MaxMoments
  /\ Len(arc.phases.rising) = 2
  /\ arc.phases.rising[1].score = 70
  /\ arc.phases.rising[2].score = 100
  /\ Len(RisingBeatsOfArc) = 3
  /\ \E k \in 1..3 : RisingBeatsOfArc[k].type = "transition" /\ RisingBeatsOfArc[k].intensity = 42

\* the rounded average intensity of a non-empty beat list
MeanIntensity(beats) == RoundDiv(SumSeq(Intensities(beats)), Len(beats))

\* C27: for every non-empty arc, opening, midpoint and closing are the
\* rounded average intensity of the hook, rising and outro beats whenever
\* that phase has a beat and the fallback 60, 50, 40 only when it has none;
\* peak is the maximum intensity among the climax beats.
C27_CurveIsPhaseAverage ==
  StoryBuilt =>
    /\ arc.emotionCurve.opening
         = IF Len(HookBeatsOfArc) >= 1 THEN MeanIntensity(HookBeatsOfArc) ELSE 60
    /\ arc.emotionCurve.midpoint
         = IF Len(RisingBeatsOfArc) >= 1 THEN MeanIntensity(RisingBeatsOfArc) ELSE 50
    /\ arc.emotionCurve.closing
         = IF Len(OutroBeatsOfArc) >= 1 THEN MeanIntensity(OutroBeatsOfArc) ELSE 40
    /\ arc.emotionCurve.peak
         = SetMax({ClimaxBeatsOfArc[k].intensity : k \in 1..Len(ClimaxBeatsOfArc)})

\* how often beat b occurs in beats
Occurrences(beats, b) == Cardinality({k \in 1..Len(beats) : beats[k] = b})

\* C28: the beats of every returned arc are ordered by non-decreasing
\* start, across the phases, and are exactly the beats synthesized for the
\* four phases: the sort adds none and loses none.
C28_BeatsSortedByStart ==
  pc = "done" =>
    LET emitted == EmittedBeats(arc.phases)
    IN /\ \A k \in 1..(Len(arc.beats) - 1) : arc.beats[k].start <= arc.beats[k + 1].start
       /\ Len(arc.beats) = Len(emitted)
       /\ \A k \in 1..Len(emitted) :
            Occurrences(arc.beats, emitted[k]) = Occurrences(emitted, emitted[k])

\* C28 witness: an arc in which a climax beat comes before a hook beat and
\* an outro beat before a climax beat.
C28_Witness ==
  /\ StoryBuilt
  /\ \E i, j \in 1..Len(arc.beats) :
       i < j /\ arc.beats[i].phase = "climax" /\ arc.beats[j].phase = "hook"
  /\ \E i, j \in 1..Len(arc.beats) :
       i < j /\ arc.beats[i].phase = "outro" /\ arc.beats[j].phase = "climax"

\* C29: for every arc of a non-empty list the peak is at least 85 and is
\* the intensity of a climax beat, and the hook phase has at least one
\* beat, whose average the opening is: neither the peak fallback 95 nor the
\* opening fallback 60 is the source of the reported value.
C29_PeakAndOpeningFromBeats ==
  StoryBuilt =>
    /\ arc.emotionCurve.peak >= 85
    /\ \E k \in 1..Len(ClimaxBeatsOfArc) :
         ClimaxBeatsOfArc[k].intensity = arc.emotionCurve.peak
    /\ Len(HookBeatsOfArc) >= 1
    /\ arc.emotionCurve.opening = MeanIntensity(HookBeatsOfArc)

\* C29 witness: an arc without hook moments whose only hook beat is the
\* flash-forward (opening 90) and whose climax moment scores 0, the peak
\* being the reaction beat's 85.
C29_Witness ==
  /\ StoryBuilt
  /\ arc.phases.hook = <<>>
  /\ arc.emotionCurve.opening = 90
  /\ TopScore(arc.phases.climax) = 0
  /\ arc.emotionCurve.peak = 85

LatestEnd(beats, floor) == SetMax({floor} \cup {beats[k].end : k \in 1..Len(beats)})

\* C30: for every returned arc 0 <= hookEnd <= risingEnd <= climaxEnd, each
\* being the latest end of a beat of its phase or the preceding boundary
\* when that is later, and totalDuration is the sum of end - start over all
\* beats, overlapping beats each counted in full.
C30_StructureBoundaries ==
  pc = "done" =>
    LET st == arc.structure
    IN /\ 0 <= st.hookEnd /\ st.hookEnd <= st.risingEnd /\ st.risingEnd <= st.climaxEnd
       /\ st.hookEnd = LatestEnd(HookBeatsOfArc, 0)
       /\ st.risingEnd = LatestEnd(RisingBeatsOfArc, st.hookEnd)
       /\ st.climaxEnd = LatestEnd(ClimaxBeatsOfArc, st.risingEnd)
       /\ st.totalDuration
            = SumSeq([k \in 1..Len(arc.beats) |-> arc.beats[k].end - arc.beats[k].start])

\* C30 witness: an arc without rising beats, so that risingEnd is inherited
\* from a positive hookEnd, whose beats overlap, the total duration being
\* longer than the timeline up to climaxEnd.
C30_Witness ==
  /\ StoryBuilt
  /\ RisingBeatsOfArc = <<>>
  /\ arc.structure.hookEnd > 0
  /\ arc.structure.risingEnd = arc.structure.hookEnd
  /\ arc.structure.climaxEnd > arc.structure.risingEnd
  /\ \E k \in 1..(Len(arc.beats) - 1) : arc.beats[k + 1].start < arc.beats[k].end
  /\ arc.structure.totalDuration > arc.structure.climaxEnd

====
